---- MODULE Spec2Model ----
(***************************************************************************)
(* A model of vale's rule compilation (check/definitions.go) and of its    *)
(* command-line entry point (main, doLint).                                *)
(*                                                                         *)
(* Two specifications share the variables:                                 *)
(*   SpecRules  one rule mapping is validated by validateDefinition and    *)
(*              handed to the builder of its kind (checkBuilders);         *)
(*   SpecMain   one run of main, from flag parsing to os.Exit.             *)
(*                                                                         *)
(* Strings whose characters matter (the 'level' value, matched by a        *)
(* regular expression) are sequences of one-character strings; every other *)
(* string is an atom.                                                      *)
(***************************************************************************)
EXTENDS Integers, Sequences, FiniteSets, TLC

VARIABLES
    \* ---- rule compilation ----
    generic,         \* the rule mapping read from the rule file (baseCheck)
    AcceptedTokens,  \* mgr.Config.AcceptedTokens
    rpc,             \* position of the rule loader
    verr,            \* what validateDefinition returned
    berr,            \* what the builder returned
    levelErr,        \* what isValidLevel returned, when the validator ran it
    mgr,             \* the checks handed to mgr.add<Kind>Check, in order
    \* ---- main ----
    args,            \* flag.Args(): one entry per argument, by what it names
    stdinPiped,      \* stat(): standard input is not a character device
    NoExit,          \* flags.NoExit
    pc,              \* position of main
    ran,             \* the steps main has run, in order
    failed,          \* the steps that returned an error
    lintCall,        \* the linter call doLint made, with its input
    lintFailed,      \* the linter call doLint made returned an error
    doLintErr,       \* the error doLint returned
    hasErrors,       \* PrintAlerts' first result
    exitCode         \* the argument of os.Exit, -1 while running

ruleVars == <<generic, AcceptedTokens, rpc, verr, berr, levelErr, mgr>>
mainVars == <<args, stdinPiped, NoExit, pc, ran, failed, lintCall, lintFailed,
              doLintErr, hasErrors, exitCode>>
vars == <<generic, AcceptedTokens, rpc, verr, berr, levelErr, mgr,
          args, stdinPiped, NoExit, pc, ran, failed, lintCall, lintFailed,
          doLintErr, hasErrors, exitCode>>

----------------------------------------------------------------------------
(* Bounds *)

MaxTokens == 2        \* tokens of a sequence rule
MaxSkip == 2          \* largest 'skip' of a token
MaxExceptions == 2    \* exceptions a rule file lists
MaxArgs == 3          \* command-line arguments

----------------------------------------------------------------------------
(* Helpers on sequences *)

Range(s) == {s[i] : i \in 1..Len(s)}

SeqsUpTo(S, n) == UNION {[1..k -> S] : k \in 0..n}

\* the orders in which a Go map over the set S can be ranged
Orders(S) == {o \in [1..Cardinality(S) -> S] : Range(o) = S}

StringInSlice(a, slice) == \E i \in 1..Len(slice) : slice[i] = a

----------------------------------------------------------------------------
(* The rule mapping *)

\* A value of the mapping: its dynamic type and its content.
F(ty, v) == [ty |-> ty, v |-> v]

extensionPoints ==
    <<"capitalization", "conditional", "consistency", "existence", "occurrence",
      "repetition", "substitution", "readability", "spelling", "sequence">>

\* strings.Join(def.Exceptions, "|") handed to regexp.MustCompile: the pattern
\* compiles iff every alternative does; "(" is the malformed alternative.
BadPattern == "("
Compiles(alts) == BadPattern \notin Range(alts)

ignoreCase == "(?i)"

\* a compiled exception pattern: the flags it starts with and its alternatives
Regexp(flags, alts) == [set |-> TRUE, flags |-> flags, alts |-> alts]
NilRegexp == [set |-> FALSE, flags |-> "", alts |-> <<>>]

\* the characters of the three level tokens
suggestion == <<"s", "u", "g", "g", "e", "s", "t", "i", "o", "n">>
warning == <<"w", "a", "r", "n", "i", "n", "g">>
error == <<"e", "r", "r", "o", "r">>

\* rx.MatchString(st) for rx = `(?:suggestion|warning|error)$`: the pattern is
\* not anchored at its start, so it matches when some suffix of st is a token.
isValidLevel(st) ==
    IF \E i \in 1..(Len(st) + 1) :
          SubSeq(st, i, Len(st)) \in {suggestion, warning, error}
    THEN "nil"
    ELSE "error"

validateDefinition_NoMessageCheck(g) ==
    IF g.extends.ty = "absent" THEN "E201"
    ELSE IF g.extends.ty # "string" THEN "panic"
    ELSE IF ~StringInSlice(g.extends.v, extensionPoints) THEN "E201"
    ELSE "nil"

\* "nil", "E201", or "panic" when point.(string) fails
validateDefinition(g) ==
    IF g.extends.ty = "absent" THEN "E201"
    ELSE IF g.extends.ty # "string" THEN "panic"
    ELSE IF ~StringInSlice(g.extends.v, extensionPoints) THEN "E201"
    ELSE IF g.message.ty = "absent" THEN "E201"
    ELSE "nil"

\* The zero value of a rule definition, with Extends already known.
ZeroDef(kind) ==
    [Extends |-> kind, Level |-> <<>>, Exceptions |-> <<>>,
     exceptRe |-> NilRegexp, Tokens |-> <<>>, Filters |-> <<>>, Ignore |-> <<>>]

\* mapstructure.Decode(generic, &def) fails when a key of the mapping holds a
\* value that does not fit the field of the struct: a kind-specific field
\* (g.other), or 'exceptions' for the kinds whose struct has Exceptions.
HasExceptions(kind) == kind \in {"conditional", "capitalization", "spelling"}

DecodeFails(g, kind) ==
    \/ g.other = "badtype"
    \/ HasExceptions(kind) /\ g.exceptions.ty = "string"

\* Decoding a list into a slice that already holds elements: depending on the
\* mapstructure release linked, the slice is replaced by the list, or the list
\* is written over it element by element and the tail is kept.
SliceModes == {"replace", "overlay"}

DecodeSlice(mode, cur, data) ==
    IF mode = "replace" \/ Len(cur) <= Len(data) THEN data
    ELSE [i \in 1..Len(cur) |-> IF i <= Len(data) THEN data[i] ELSE cur[i]]

\* the fields the decoder fills on success
Decode(g, def, mode) ==
    [def EXCEPT
        !.Level = IF g.level.ty = "string" THEN g.level.v ELSE @,
        !.Exceptions = IF HasExceptions(def.Extends) /\ g.exceptions.ty = "list"
                       THEN DecodeSlice(mode, @, g.exceptions.v)
                       ELSE @]

----------------------------------------------------------------------------
(* The sequence builder's token list *)

\* mapstructure.Decode(token, &tok) into a zero NLPToken; its error is
\* discarded, and an entry that is no mapping leaves tok at its zero value.
DecodeToken(token) ==
    IF token.wf
    THEN [Pattern |-> token.pattern, Negate |-> token.negate, Tag |-> token.tag,
          Skip |-> token.skip, optional |-> FALSE]
    ELSE [Pattern |-> "", Negate |-> FALSE, Tag |-> "", Skip |-> 0,
          optional |-> FALSE]

\* for i := tok.Skip; i > 0; i-- { def.Tokens = append(def.Tokens, tok) }
RECURSIVE SkipCopies(_, _)
SkipCopies(tok, i) ==
    IF i > 0 THEN <<tok>> \o SkipCopies(tok, i - 1) ELSE <<>>

AppendToken_NoCopies(defTokens, token) ==
    Append(defTokens, DecodeToken(token))

\* one iteration of the loop over generic["tokens"]
AppendToken(defTokens, token) ==
    LET tok == DecodeToken(token)
    IN  Append(defTokens, tok)
            \o SkipCopies([tok EXCEPT !.optional = TRUE], tok.Skip)

RECURSIVE BuildTokens(_, _)
BuildTokens(defTokens, tokens) ==
    IF tokens = <<>> THEN defTokens
    ELSE BuildTokens(AppendToken(defTokens, Head(tokens)), Tail(tokens))

----------------------------------------------------------------------------
(* The rule files and vocabularies considered *)

Absent == F("absent", <<>>)
AbsentString == F("absent", "")

Vocab == {"Vale", "API"}

ExceptionWords == {"foo", BadPattern}

LevelInputs ==
    {pre \o tok \o suf :
        pre \in {<<>>, <<"x">>},
        tok \in {suggestion, warning, error, <<>>, <<"w", "a", "r", "n">>},
        suf \in {<<>>, <<"s">>}}

NLPTokens ==
    [wf : {TRUE}, pattern : {"a", "b"}, tag : {"NN"}, negate : BOOLEAN,
     skip : (-1)..MaxSkip]
      \cup {[wf |-> FALSE, pattern |-> "", tag |-> "", negate |-> FALSE, skip |-> 0]}

Header(extends, message) ==
    [extends |-> extends, message |-> message, level |-> F("string", warning),
     other |-> "ok", exceptions |-> Absent, tokens |-> Absent,
     filters |-> Absent, ignore |-> Absent]

Kinds == Range(extensionPoints)

\* headers: every kind, an unknown kind, a non-string and a missing 'extends',
\* with and without 'message', with and without a malformed kind-specific field
HeaderRules ==
    {[Header(e, m) EXCEPT !.other = o] :
        e \in {F("string", k) : k \in Kinds \cup {"bogus"}}
                 \cup {AbsentString, F("int", "")},
        m \in {AbsentString, F("string", "msg")},
        o \in {"ok", "badtype"}}

LevelRules ==
    {[Header(F("string", k), F("string", "msg")) EXCEPT !.level = l] :
        k \in {"existence", "substitution", "occurrence"},
        l \in {F("string", st) : st \in LevelInputs} \cup {Absent}}

ExceptionRules ==
    {[Header(F("string", k), F("string", "msg")) EXCEPT !.exceptions = x] :
        k \in {"conditional", "capitalization", "spelling", "existence",
               "readability"},
        x \in {F("list", l) :
                   l \in SeqsUpTo(ExceptionWords, MaxExceptions) \ {<<>>}}
                 \cup {Absent, F("string", <<"foo">>)}}

SpellingRules ==
    {[Header(F("string", "spelling"), F("string", "msg")) EXCEPT
          !.filters = f, !.ignore = i, !.other = o] :
        f \in {Absent, F("list", <<>>), F("list", <<"[A-Z]+", BadPattern>>),
               F("string", <<"[A-Z]+">>), F("intlist", <<"1">>)},
        i \in {Absent, F("string", <<"words.txt">>),
               F("list", <<"a.txt", "b.txt">>), F("int", <<"1">>),
               F("intlist", <<"1">>)},
        o \in {"ok", "badtype"}}

SequenceRules ==
    {[Header(F("string", "sequence"), F("string", "msg")) EXCEPT
          !.tokens = t, !.other = o] :
        t \in {F("list", l) : l \in SeqsUpTo(NLPTokens, MaxTokens)} \cup {Absent},
        o \in {"ok", "badtype"}}

Rules == HeaderRules \cup LevelRules \cup ExceptionRules \cup SpellingRules
             \cup SequenceRules

----------------------------------------------------------------------------
(* Rule compilation: validateDefinition, then the builder of the kind *)

\* main's variables, idle while a rule is compiled
IdleMain ==
    /\ args = <<>>
    /\ stdinPiped = FALSE
    /\ NoExit = FALSE
    /\ pc = "idle"
    /\ ran = <<>>
    /\ failed = {}
    /\ lintCall = [fn |-> "none", input |-> <<>>]
    /\ lintFailed = FALSE
    /\ doLintErr = "none"
    /\ hasErrors = FALSE
    /\ exitCode = -1

InitRules ==
    /\ IdleMain
    /\ generic \in Rules
    /\ AcceptedTokens \in SUBSET Vocab
    /\ rpc = "load"
    /\ verr = "none"
    /\ berr = "none"
    /\ levelErr = "none"
    /\ mgr = <<>>

Validate ==
    /\ rpc = "load"
    /\ verr' = validateDefinition(generic)
    /\ rpc' = CASE verr' = "nil" -> "validated"
                [] verr' = "E201" -> "rejected"
                [] OTHER -> "crashed"
    /\ UNCHANGED <<generic, AcceptedTokens, berr, levelErr, mgr>>
    /\ UNCHANGED mainVars

Building(kind) == rpc = "validated" /\ generic.extends.v = kind

\* the builder returned err; defs are the checks it handed to the manager
Return(err, defs) ==
    /\ rpc' = "built"
    /\ berr' = err
    /\ mgr' = mgr \o defs
    /\ UNCHANGED <<generic, AcceptedTokens, verr>>
    /\ UNCHANGED mainVars

\* the builder panicked
Panic ==
    /\ rpc' = "crashed"
    /\ berr' = "panic"
    /\ UNCHANGED <<generic, AcceptedTokens, verr, levelErr, mgr>>
    /\ UNCHANGED mainVars

\* existence and substitution: decode, validate, add; every error is returned
DecodeValidateAdd(kind) ==
    IF DecodeFails(generic, kind)
    THEN Return("E201", <<>>) /\ UNCHANGED levelErr
    ELSE LET def == Decode(generic, ZeroDef(kind), "replace")
         IN  /\ levelErr' = isValidLevel(def.Level)
             /\ IF levelErr' = "error"
                THEN Return("E201", <<>>)
                ELSE \E addErr \in {"nil", "E201"} : Return(addErr, <<def>>)

\* occurrence, repetition, consistency, readability: add if the decoding
\* succeeded, and return nil either way
DecodeAdd(kind) ==
    /\ IF DecodeFails(generic, kind)
       THEN Return("nil", <<>>)
       ELSE Return("nil", <<Decode(generic, ZeroDef(kind), "replace")>>)
    /\ UNCHANGED levelErr

\* conditional and capitalization: decode, append the accepted tokens to the
\* exceptions, compile their alternation, add
DecodeAcceptAdd(kind) ==
    IF DecodeFails(generic, kind)
    THEN Return("nil", <<>>) /\ UNCHANGED levelErr
    ELSE \E order \in Orders(AcceptedTokens) :
           LET def == Decode(generic, ZeroDef(kind), "replace")
               exceptions == def.Exceptions \o order
           IN  IF Compiles(exceptions)
               THEN /\ Return("nil", <<[def EXCEPT
                                          !.Exceptions = exceptions,
                                          !.exceptRe = Regexp("", exceptions)]>>)
                    /\ UNCHANGED levelErr
               ELSE Panic

existence == Building("existence") /\ DecodeValidateAdd("existence")

substitution == Building("substitution") /\ DecodeValidateAdd("substitution")

occurrence == Building("occurrence") /\ DecodeAdd("occurrence")

repetition == Building("repetition") /\ DecodeAdd("repetition")

consistency == Building("consistency") /\ DecodeAdd("consistency")

conditional == Building("conditional") /\ DecodeAcceptAdd("conditional")

capitalization == Building("capitalization") /\ DecodeAcceptAdd("capitalization")

readability == Building("readability") /\ DecodeAdd("readability")

spelling ==
    /\ Building("spelling")
    /\ IF \/ generic.filters.ty \notin {"absent", "list"}
          \/ generic.ignore.ty \notin {"absent", "string", "list"}
       THEN Panic
       ELSE \E order \in Orders(AcceptedTokens), mode \in SliceModes :
              LET filters == SelectSeq(generic.filters.v,
                                       LAMBDA f : Compiles(<<f>>))
                  zero == ZeroDef("spelling")
                  def == [zero EXCEPT
                            !.Filters = filters,
                            !.Ignore = generic.ignore.v,
                            !.Exceptions = order,
                            !.exceptRe = IF order = <<>> THEN NilRegexp
                                         ELSE Regexp(ignoreCase, order)]
              IN  IF ~Compiles(order) THEN Panic
                  ELSE /\ IF DecodeFails(generic, "spelling")
                          THEN Return("nil", <<>>)
                          ELSE Return("nil", <<Decode(generic, def, mode)>>)
                       /\ UNCHANGED levelErr

sequence ==
    /\ Building("sequence")
    /\ IF generic.tokens.ty # "list"
       THEN Panic
       ELSE LET zero == ZeroDef("sequence")
                def == [zero EXCEPT !.Tokens = BuildTokens(<<>>, generic.tokens.v)]
            IN  /\ IF DecodeFails(generic, "sequence")
                   THEN Return("nil", <<>>)
                   ELSE Return("nil", <<Decode(generic, def, "replace")>>)
                /\ UNCHANGED levelErr

NextRules ==
    \/ Validate
    \/ existence
    \/ substitution
    \/ occurrence
    \/ repetition
    \/ consistency
    \/ conditional
    \/ capitalization
    \/ readability
    \/ spelling
    \/ sequence

SpecRules == InitRules /\ [][NextRules]_vars

----------------------------------------------------------------------------
(* main and doLint *)

\* What an argument names: an existing file or directory, a non-empty string
\* that names nothing that exists, the empty string, or a built-in command
\* (a member of commands; it names no file).
ArgKinds == {"file", "missing", "empty", "command"}

\* !(core.FileExists(s) || core.IsDir(s)) && s != ""
looksLikeStdin(s) == s \in {"missing", "command"}

\* the rule loader's variables, idle while main runs
IdleRules ==
    /\ generic = Header(AbsentString, AbsentString)
    /\ AcceptedTokens = {}
    /\ rpc = "idle"
    /\ verr = "none"
    /\ berr = "none"
    /\ levelErr = "none"
    /\ mgr = <<>>

NoLintCall == [fn |-> "none", input |-> <<>>]

InitMain ==
    /\ IdleRules
    /\ args \in SeqsUpTo(ArgKinds, MaxArgs)
    /\ stdinPiped \in BOOLEAN
    /\ NoExit \in BOOLEAN
    /\ pc = "NewConfig"
    /\ ran = <<>>
    /\ failed = {}
    /\ lintCall = NoLintCall
    /\ lintFailed = FALSE
    /\ doLintErr = "none"
    /\ hasErrors = FALSE
    /\ exitCode = -1

\* main calls step, which returns an error or not
Call(step, err) ==
    /\ ran' = Append(ran, step)
    /\ failed' = IF err THEN failed \cup {step} ELSE failed

\* os.Exit(code)
Exit(code) == pc' = "exited" /\ exitCode' = code

IsCommand == Len(args) = 1 /\ args[1] = "command"
IsIntro == Len(args) = 0 /\ ~stdinPiped

\* lines 86-89: an error of NewConfig is shown, and main goes on
NewConfig ==
    /\ pc = "NewConfig"
    /\ \E err \in BOOLEAN : Call("NewConfig", err)
    /\ pc' = "args"
    /\ UNCHANGED <<args, stdinPiped, NoExit, lintCall, lintFailed, doLintErr,
                   hasErrors, exitCode>>
    /\ UNCHANGED ruleVars

\* lines 92-93: with no argument and nothing piped in, printIntro prints the
\* introduction. printIntro is defined outside the files modelled here; the
\* run is taken to end there with code 0, and no property below rests on it.
printIntro ==
    /\ pc = "args"
    /\ IsIntro
    /\ Call("printIntro", FALSE)
    /\ Exit(0)
    /\ UNCHANGED <<args, stdinPiped, NoExit, lintCall, lintFailed, doLintErr,
                   hasErrors>>
    /\ UNCHANGED ruleVars

doCommand_FallsThrough ==
    /\ pc = "args"
    /\ ~IsIntro
    /\ IsCommand
    /\ \E err \in BOOLEAN :
         /\ Call("doCommand", err)
         /\ IF err THEN Exit(2) ELSE pc' = "NewLinter" /\ UNCHANGED exitCode
    /\ UNCHANGED <<args, stdinPiped, NoExit, lintCall, lintFailed, doLintErr,
                   hasErrors>>
    /\ UNCHANGED ruleVars

\* lines 94-99
doCommand ==
    /\ pc = "args"
    /\ ~IsIntro
    /\ IsCommand
    /\ \E err \in BOOLEAN :
         /\ Call("doCommand", err)
         /\ IF err THEN Exit(2) ELSE Exit(1)
    /\ UNCHANGED <<args, stdinPiped, NoExit, lintCall, lintFailed, doLintErr,
                   hasErrors>>
    /\ UNCHANGED ruleVars

\* a step whose error goes to handleError: exit 2, or go on at next
Step(step, next) ==
    /\ \E err \in BOOLEAN :
         /\ Call(step, err)
         /\ IF err THEN Exit(2) ELSE pc' = next /\ UNCHANGED exitCode
    /\ UNCHANGED <<args, stdinPiped, NoExit, lintCall, lintFailed, doLintErr,
                   hasErrors>>
    /\ UNCHANGED ruleVars

\* lines 100-101
validateFlags ==
    /\ pc = "args"
    /\ ~IsIntro
    /\ ~IsCommand
    /\ Step("validateFlags", "From")

\* lines 102-104
From == pc = "From" /\ Step("From", "NewLinter")

\* lines 106-109
NewLinter == pc = "NewLinter" /\ Step("NewLinter", "doLint")

\* doLint's results: the linter call made, whether it failed, the error returned
DoLintResults ==
    IF Len(args) > 0
    THEN IF Len(args) = 1 /\ looksLikeStdin(args[1])
         THEN \* Case 1: err is the error of LintString
              {[call |-> [fn |-> "LintString", input |-> <<1>>],
                lfail |-> e, err |-> IF e THEN "error" ELSE "nil"] :
                  e \in BOOLEAN}
         ELSE \* Case 2: the first argument that names nothing ends doLint
              IF \E i \in 1..Len(args) : looksLikeStdin(args[i])
              THEN {[call |-> NoLintCall, lfail |-> FALSE, err |-> "E100"]}
              ELSE {[call |-> [fn |-> "Lint",
                               input |-> [i \in 1..Len(args) |-> i]],
                     lfail |-> e, err |-> IF e THEN "error" ELSE "nil"] :
                       e \in BOOLEAN}
    ELSE \* Case 3: standard input; `stdin, err := ...` declares a new err in
         \* the block, so the error of LintString is assigned to that one and
         \* the err returned at the end of doLint stays nil
         {[call |-> NoLintCall, lfail |-> FALSE, err |-> "E100"]}
           \cup {[call |-> [fn |-> "LintString", input |-> <<>>],
                  lfail |-> e, err |-> "nil"] : e \in BOOLEAN}

\* lines 111-114, with doLint (lines 37-76)
doLint ==
    /\ pc = "doLint"
    /\ \E r \in DoLintResults :
         /\ lintCall' = r.call
         /\ lintFailed' = r.lfail
         /\ doLintErr' = r.err
         /\ Call("doLint", r.err # "nil")
         /\ IF r.err # "nil" THEN Exit(2)
            ELSE pc' = "PrintAlerts" /\ UNCHANGED exitCode
    /\ UNCHANGED <<args, stdinPiped, NoExit, hasErrors>>
    /\ UNCHANGED ruleVars

\* lines 116-123
PrintAlerts ==
    /\ pc = "PrintAlerts"
    /\ \E alerts \in BOOLEAN, err \in BOOLEAN :
         /\ hasErrors' = alerts
         /\ Call("PrintAlerts", err)
         /\ IF err THEN Exit(2)
            ELSE IF alerts /\ ~NoExit THEN Exit(1)
            ELSE Exit(0)
    /\ UNCHANGED <<args, stdinPiped, NoExit, lintCall, lintFailed, doLintErr>>
    /\ UNCHANGED ruleVars

NextMain ==
    \/ NewConfig
    \/ printIntro
    \/ doCommand
    \/ validateFlags
    \/ From
    \/ NewLinter
    \/ doLint
    \/ PrintAlerts

SpecMain == InitMain /\ [][NextMain]_vars

----------------------------------------------------------------------------
(* Properties of rule compilation (checked under SpecRules) *)

TenKinds ==
    {"existence", "substitution", "occurrence", "repetition", "consistency",
     "conditional", "capitalization", "readability", "spelling", "sequence"}

\* C1: for a rule mapping whose 'extends' is missing or a string,
\* validateDefinition returns an E201 error exactly when 'extends' is missing,
\* or names none of the ten kinds, or 'message' is missing; otherwise it
\* returns nil.
C1_ValidateDefinition ==
    (rpc # "load" /\ generic.extends.ty \in {"absent", "string"}) =>
        /\ verr \in {"nil", "E201"}
        /\ verr = "E201" <=>
              \/ generic.extends.ty = "absent"
              \/ generic.extends.v \notin TenKinds
              \/ generic.message.ty = "absent"

\* a rule of a known kind was rejected only because it has no message
C1_Witness ==
    /\ rpc = "rejected"
    /\ generic.extends.ty = "string"
    /\ generic.extends.v = "sequence"
    /\ generic.message.ty = "absent"

\* the 'level' string the validator sees
LevelOf(g) == IF g.level.ty = "string" THEN g.level.v ELSE <<>>

\* C2: the level validation accepts a 'level' string exactly when it is one
\* of the tokens suggestion, warning, error.
C2_LevelIsToken ==
    levelErr # "none" =>
        (levelErr = "nil" <=> LevelOf(generic) \in {suggestion, warning, error})

\* the kind-specific decoding or validation of the rule mapping fails
KindFails(g) ==
    \/ DecodeFails(g, g.extends.v)
    \/ /\ g.extends.v \in {"existence", "substitution"}
       /\ isValidLevel(LevelOf(g)) = "error"
    \/ /\ g.extends.v = "sequence"
       /\ \E i \in 1..Len(g.tokens.v) : ~g.tokens.v[i].wf

\* C3: when the kind-specific decoding or validation of a rule mapping fails,
\* the builder returns a configuration error and registers no check.
C3_FailureIsReported ==
    (rpc = "built" /\ KindFails(generic)) => (berr = "E201" /\ mgr = <<>>)

FileExceptions(g) ==
    IF g.exceptions.ty = "list" THEN Range(g.exceptions.v) ELSE {}

\* C4: a registered conditional, capitalization or spelling rule lists every
\* exception of the rule file and every accepted token, and its exception
\* pattern is the alternation of that list; a registered rule of another kind
\* carries no trace of the accepted tokens. (Stated for rule files whose
\* exceptions are well-formed patterns.)
C4_AcceptedTokensAppended ==
    BadPattern \notin FileExceptions(generic) =>
    \A i \in 1..Len(mgr) :
        IF HasExceptions(mgr[i].Extends)
        THEN /\ FileExceptions(generic) \cup AcceptedTokens
                    \subseteq Range(mgr[i].Exceptions)
             /\ mgr[i].Exceptions # <<>> => mgr[i].exceptRe.set
             /\ mgr[i].exceptRe.alts = mgr[i].Exceptions
        ELSE /\ mgr[i].Exceptions = <<>>
             /\ mgr[i].exceptRe = NilRegexp

\* C10: the builder of a rule mapping that passed validateDefinition returns;
\* it never panics.
C10_BuilderReturns ==
    verr = "nil" => (rpc # "crashed" /\ berr # "panic")

\* the optional copies the claim expects after a token of the given skip
Copies(k) == k
CopiesMade(k) == IF k > 0 THEN k ELSE 0

RECURSIVE SumCopies(_, _, _)
SumCopies(C(_), tokens, n) ==
    IF n = 0 THEN 0 ELSE SumCopies(C, tokens, n - 1) + C(tokens[n].skip)

\* The token list built from tokens, where token i is followed by C(skip_i)
\* optional copies: its length, the required entries in the order of the rule
\* file, and after each its optional copies with the same pattern, tag and
\* negate.
SequenceShape(C(_), tokens, out) ==
    /\ Len(out) = Len(tokens) + SumCopies(C, tokens, Len(tokens))
    /\ \A i \in 1..Len(tokens) :
         LET at == i + SumCopies(C, tokens, i - 1)
         IN  /\ at \in 1..Len(out)
             /\ out[at].optional = FALSE
             /\ out[at].Pattern = tokens[i].pattern
             /\ out[at].Tag = tokens[i].tag
             /\ out[at].Negate = tokens[i].negate
             /\ \A c \in 1..C(tokens[i].skip) :
                  /\ at + c \in 1..Len(out)
                  /\ out[at + c].optional = TRUE
                  /\ out[at + c].Pattern = tokens[i].pattern
                  /\ out[at + c].Tag = tokens[i].tag
                  /\ out[at + c].Negate = tokens[i].negate

\* a sequence rule was registered and every entry of its 'tokens' is a mapping
SequenceBuilt ==
    /\ rpc = "built"
    /\ generic.extends.v = "sequence"
    /\ Len(mgr) = 1
    /\ \A i \in 1..Len(generic.tokens.v) : generic.tokens.v[i].wf

\* C8 as stated: token i is followed by exactly skip_i optional copies and the
\* list has n + (k1 + ... + kn) entries.
C8_SkipCopies ==
    SequenceBuilt => SequenceShape(Copies, generic.tokens.v, mgr[1].Tokens)

\* C8 amended: token i is followed by exactly max(skip_i, 0) optional copies
\* and the list has n + (max(k1, 0) + ... + max(kn, 0)) entries.
C8_SkipCopiesNonNegative ==
    SequenceBuilt => SequenceShape(CopiesMade, generic.tokens.v, mgr[1].Tokens)

\* a rule of two tokens, the first with skip 2 and the second with skip -1
C8_Witness ==
    /\ SequenceBuilt
    /\ Len(generic.tokens.v) = 2
    /\ generic.tokens.v[1].skip = 2
    /\ generic.tokens.v[2].skip = -1
    /\ Len(mgr[1].Tokens) = 4

----------------------------------------------------------------------------
(* Properties of main (checked under SpecMain) *)

\* the steps C5 lists
ErrorSteps ==
    {"NewConfig", "validateFlags", "From", "NewLinter", "doLint", "PrintAlerts"}

\* C5: when the arguments are no built-in command, the exit code is 2 exactly
\* when some step returned an error; otherwise it is 1 exactly when alerts are
\* reported and --no-exit is not set; otherwise it is 0. No step runs after a
\* step that returned an error. (Stated for the runs that lint: a run that
\* only prints the introduction is left aside.)
C5_ExitCodes ==
    (~IsCommand /\ ~IsIntro) =>
        /\ \A i \in 1..Len(ran) :
             (ran[i] \in ErrorSteps /\ i < Len(ran)) => ran[i] \notin failed
        /\ pc = "exited" =>
             /\ exitCode = 2 <=> failed # {}
             /\ failed = {} => (exitCode = 1 <=> (hasErrors /\ ~NoExit))
             /\ exitCode \in {0, 1, 2}

\* C6: when the only argument is a built-in command, main runs the command
\* and exits with 1 if it completed and 2 if it failed, and it never validates
\* the flags, loads the configuration, creates a linter, lints or prints alerts.
C6_CommandOnly ==
    IsCommand =>
        /\ Range(ran) \cap {"validateFlags", "From", "NewLinter", "doLint",
                            "PrintAlerts", "printIntro"} = {}
        /\ lintCall = NoLintCall
        /\ pc = "exited" =>
             /\ ran = <<"NewConfig", "doCommand">>
             /\ exitCode = IF "doCommand" \in failed THEN 2 ELSE 1

\* a built-in command completed and main exited with 1
C6_Witness ==
    /\ IsCommand
    /\ pc = "exited"
    /\ "doCommand" \in Range(ran)
    /\ "doCommand" \notin failed
    /\ exitCode = 1

\* C7: when several inputs are given and one of them does not exist, doLint
\* still hands the inputs that exist to the linter.
C7_OtherInputsLinted ==
    (/\ "doLint" \in Range(ran)
     /\ Len(args) > 1
     /\ \E i \in 1..Len(args) : looksLikeStdin(args[i])) =>
        \A i \in 1..Len(args) :
            args[i] = "file" => i \in Range(lintCall.input)

\* C9: when the linter call doLint made failed, doLint returns an error and
\* main exits with 2.
C9_LinterErrorReturned ==
    ("doLint" \in Range(ran) /\ lintFailed) =>
        /\ doLintErr # "nil"
        /\ pc = "exited"
        /\ exitCode = 2

====
